---- MODULE Spec2Model ----
(***************************************************************************)
(* A model of src/src/table.rs: TableChip, a two-column lookup chip for a  *)
(* PLONK-style circuit.  The chip's three operations (configure, load,     *)
(* add_row) are translated from the source.  The proving framework they    *)
(* call (constraint-system builder, table assigner, region, verifier) is   *)
(* an external crate; it is modelled from the interface the specification  *)
(* describes (section 6) and kept in separate definitions.                 *)
(*                                                                         *)
(* The chip is modelled under an arbitrary caller: any circuit that        *)
(* configures the chip once and then calls load and add_row in any order   *)
(* with any arguments.  The circuit of the source's lookup_table test is   *)
(* one such caller; the statements of its synthesize that are not chip     *)
(* calls (the assert_eq! on xs[1] and ys[1] and the read of ys[2], lines   *)
(* 246-250) belong to that circuit alone and are no part of the chip, so   *)
(* no action stands for them.                                              *)
(***************************************************************************)
EXTENDS Integers, Sequences, FiniteSets, TLC

(* ------------------------------ bounds -------------------------------- *)

\* Usable rows of the circuit: rows 0..NumRows-1 can be assigned.
NumRows == 2

\* Lookup table columns other chips allocated before configure: 0..MaxPre.
MaxPre == 1


\* The bytes tried as table entries and witnesses (u8 is 0..255).  The chip and
\* the lookup only ever compare embedded bytes for equality, so two values give
\* every pattern of equal and unequal entries a table of pairs can show.
Byte == {0, 1}
Rows == 0..(NumRows - 1)
\* Row indices a caller may pass: one past the last usable row included.
RowArgs == 0..NumRows
\* Longest xs / ys tried: one row more than the circuit has.
MaxLen == NumRows + 1
\* The advice columns a caller may pass to configure as input_x and input_y
\* (lines 71-72): columns 0 and 1, and column 2, which another chip also uses.
AdviceCols == {0, 1, 2}
TableCols == 0..(MaxPre + 1)

(* --------------------------- value encodings -------------------------- *)

\* Option<u8>
None == [some |-> FALSE, v |-> 0]
Some(b) == [some |-> TRUE, v |-> b]
OptByte == {None} \cup {Some(b) : b \in Byte}

\* Result<(), Error>
Ok == [ok |-> TRUE, err |-> "none"]
Err(e) == [ok |-> FALSE, err |-> e]
\* Error::Synthesis, the chip's own error (lines 152, 162).
ErrSynthesis == Err("Synthesis")
\* The framework's error for a row outside the circuit.
ErrBounds == Err("BoundsFailure")

\* Cell contents.
Unassigned == [tag |-> "Unassigned", v |-> 0]
Unknown == [tag |-> "Unknown", v |-> 0]
\* x as u64: zero extension of a byte.
as_u64(b) == b
\* F::from(n): the field element with canonical representative n.  The field
\* modulus exceeds 2^64, so no u64 is reduced and the embedding is injective.
FromU64(n) == [tag |-> "F", v |-> n]

Min(a, b) == IF a <= b THEN a ELSE b

SeqsUpTo(S, n) == UNION {[1..k -> S] : k \in 0..n}

(* ------------------------------- state -------------------------------- *)

VARIABLES
    mode,       \* "keygen" (no witness values are needed) or "prove"
    cs,         \* the constraint system: table columns allocated, lookups
    config,     \* the TableConfig configure returned
    fixed,      \* fixed table cells: <<column, row>> -> cell
    table_log,  \* the table assigner's calls, in order: <<column, row, value, result>>
    advice,     \* advice cells: <<column, row>> -> cell
    witness,    \* W: per row, the pair the last successful add_row there was given
    loaded,     \* the load call made, if any: its arguments and result
    last,       \* the last chip call: operation, arguments, result, region calls
    status,     \* "new", "configured" (synthesis running), "failed", "verified"
    verdict     \* the verifier's decision once status = "verified"

vars == <<mode, cs, config, fixed, table_log, advice, witness, loaded, last, status, verdict>>

NoConfig == [input |-> [x |-> -1, y |-> -1], table |-> [x |-> -1, y |-> -1]]
NotLoaded == [done |-> FALSE, xs |-> <<>>, ys |-> <<>>, ret |-> Ok, after_rows |-> FALSE]
NoCall == [op |-> "none", input_x |-> -1, input_y |-> -1,
           row |-> 0, x |-> None, y |-> None, ret |-> Ok, calls |-> <<>>]
NoPair == [set |-> FALSE, x |-> None, y |-> None]

EmptyFixed == [c \in TableCols \X Rows |-> Unassigned]
EmptyAdvice == [c \in AdviceCols \X Rows |-> Unassigned]
EmptyWitness == [r \in Rows |-> NoPair]

\* The constraint system other chips left behind: p table columns, each used
\* by one lookup on the last advice column.
PreCs(p) == [tableCols |-> p,
             lookups |-> [i \in 1..p |-> << <<2, i - 1>> >>]]

(* ------------------- framework: constraint-system builder ------------- *)

\* ConstraintSystem::lookup_table_column: a handle no earlier call returned.
lookup_table_column(c) ==
    [col |-> c.tableCols, cs |-> [c EXCEPT !.tableCols = @ + 1]]

\* ConstraintSystem::lookup: one more lookup argument, a list of
\* <<advice column queried at the current row, table column>> pairs.
lookup(c, pairs) == [c EXCEPT !.lookups = Append(@, pairs)]

(* ------------------------- TableChip::configure ----------------------- *)

\* Mutant: the returned config names the table columns the other way round.
configure_swapped(c, input_x, input_y) ==
    LET a == lookup_table_column(c)
        b == lookup_table_column(a.cs)
        table_x == a.col
        table_y == b.col
        c2 == lookup(b.cs, << <<input_x, table_x>>, <<input_y, table_y>> >>)
    IN  [cs |-> c2,
         config |-> [input |-> [x |-> input_x, y |-> input_y],
                     table |-> [x |-> table_y, y |-> table_x]]]

configure(c, input_x, input_y) ==
    LET a == lookup_table_column(c)
        b == lookup_table_column(a.cs)
        table_x == a.col
        table_y == b.col
        c2 == lookup(b.cs, << <<input_x, table_x>>, <<input_y, table_y>> >>)
    IN  [cs |-> c2,
         config |-> [input |-> [x |-> input_x, y |-> input_y],
                     table |-> [x |-> table_x, y |-> table_y]]]

(* ----------------------- framework: table assigner -------------------- *)

\* Table::assign_cell: writes one fixed cell, or reports a row the circuit
\* does not have.  t is [cells, log].
assign_cell(t, col, row, val) ==
    IF row \in Rows
    THEN [ret |-> Ok,
          t |-> [cells |-> [t.cells EXCEPT ![<<col, row>>] = val],
                 log |-> Append(t.log, <<col, row, val, Ok>>)]]
    ELSE [ret |-> ErrBounds,
          t |-> [t EXCEPT !.log = Append(@, <<col, row, Unassigned, ErrBounds>>)]]

\* Layouter::assign_table: runs the closure and returns what it returned.
assign_table(closure_result) == closure_result

(* --------------------------- TableChip::load -------------------------- *)

\* Mutant: row_offset is never advanced, every pair lands in row 0.
RECURSIVE load_loop_stuck(_, _, _, _, _)
load_loop_stuck(t, cfg, xs, ys, i) ==
    IF i > Min(Len(xs), Len(ys))
    THEN [ret |-> Ok, t |-> t]
    ELSE LET a == assign_cell(t, cfg.table.x, 0, FromU64(as_u64(xs[i])))
         IN  IF ~a.ret.ok
             THEN [ret |-> a.ret, t |-> a.t]
             ELSE LET b == assign_cell(a.t, cfg.table.y, 0, FromU64(as_u64(ys[i])))
                  IN  IF ~b.ret.ok
                      THEN [ret |-> b.ret, t |-> b.t]
                      ELSE load_loop_stuck(b.t, cfg, xs, ys, i + 1)

\* The closure's loop over xs.iter().zip(ys.iter()), from the pair at index i
\* (1-based) on; row_offset is i - 1.
RECURSIVE load_loop(_, _, _, _, _)
load_loop(t, cfg, xs, ys, i) ==
    IF i > Min(Len(xs), Len(ys))
    THEN [ret |-> Ok, t |-> t]
    ELSE LET row_offset == i - 1
             a == assign_cell(t, cfg.table.x, row_offset, FromU64(as_u64(xs[i])))
         IN  IF ~a.ret.ok
             THEN [ret |-> a.ret, t |-> a.t]
             ELSE LET b == assign_cell(a.t, cfg.table.y, row_offset,
                                       FromU64(as_u64(ys[i])))
                  IN  IF ~b.ret.ok
                      THEN [ret |-> b.ret, t |-> b.t]
                      ELSE load_loop(b.t, cfg, xs, ys, i + 1)

\* Mutant: the last pair is not loaded.
load_short(cfg, t, xs, ys) ==
    assign_table(load_loop(t, cfg, SubSeq(xs, 1, Len(xs) - 1), SubSeq(ys, 1, Len(ys) - 1), 1))

load(cfg, t, xs, ys) == assign_table(load_loop(t, cfg, xs, ys, 1))

(* -------------------------- framework: region ------------------------- *)

\* Region::assign_advice; reg is [cells, log].  In both modes a row outside
\* the circuit is caught and reported by the region (section 4.3), before the
\* thunk is asked for the value.  Key generation needs no witness values
\* (section 7): a thunk that has none is no error there and the cell is recorded
\* with the unknown value.  Proving passes the thunk's error on.
assign_advice(m, reg, col, row, thunk) ==
    LET val == IF thunk.ret.ok THEN thunk.val ELSE Unknown
        ret == IF row \notin Rows THEN ErrBounds
               ELSE IF m = "keygen" THEN Ok
               ELSE thunk.ret
    IN  [ret |-> ret,
         reg |-> [cells |-> IF ret.ok /\ row \in Rows
                            THEN [reg.cells EXCEPT ![<<col, row>>] = val]
                            ELSE reg.cells,
                  log |-> Append(reg.log,
                                 <<col, row, IF ret.ok THEN val ELSE Unassigned, ret>>)]]

(* ------------------------- TableChip::add_row ------------------------- *)

\* Mutant: an unknown byte becomes zero instead of an error.
value_thunk_default(o) ==
    [ret |-> Ok, val |-> FromU64(as_u64(o.v))]

\* x.map(|x| F::from(x as u64)).ok_or(Error::Synthesis)
value_thunk(o) ==
    IF o.some
    THEN [ret |-> Ok, val |-> FromU64(as_u64(o.v))]
    ELSE [ret |-> ErrSynthesis, val |-> Unknown]

\* Mutant: x goes to the y column and y to the x column.
add_row_swapped(cfg, m, reg, row, x, y) ==
    LET a == assign_advice(m, reg, cfg.input.y, row, value_thunk(x))
    IN  IF ~a.ret.ok
        THEN a
        ELSE LET b == assign_advice(m, a.reg, cfg.input.x, row, value_thunk(y))
             IN  IF ~b.ret.ok THEN b ELSE [ret |-> Ok, reg |-> b.reg]

\* Mutant: the result of the x assignment is dropped (no `?`).
add_row_continue(cfg, m, reg, row, x, y) ==
    LET a == assign_advice(m, reg, cfg.input.x, row, value_thunk(x))
        b == assign_advice(m, a.reg, cfg.input.y, row, value_thunk(y))
    IN  IF ~b.ret.ok THEN b ELSE [ret |-> Ok, reg |-> b.reg]

add_row(cfg, m, reg, row, x, y) ==
    LET a == assign_advice(m, reg, cfg.input.x, row, value_thunk(x))
    IN  IF ~a.ret.ok
        THEN a
        ELSE LET b == assign_advice(m, a.reg, cfg.input.y, row, value_thunk(y))
             IN  IF ~b.ret.ok THEN b ELSE [ret |-> Ok, reg |-> b.reg]

(* ------------------------- framework: verifier ------------------------ *)

\* The rows of a lookup's table: the tuples of its table columns at every
\* row where all of them were assigned.
TableTuples(L, fx) ==
    {[k \in 1..Len(L) |-> fx[<<L[k][2], r>>]] :
        r \in {q \in Rows : \A k \in 1..Len(L) : fx[<<L[k][2], q>>] # Unassigned}}

\* The lookup's input tuple at row r.
InputTuple(L, adv, r) == [k \in 1..Len(L) |-> adv[<<L[k][1], r>>]]

\* The rows the lookup argument constrains: those a witness was assigned in.
WitnessRows(L, adv) ==
    {r \in Rows : \E k \in 1..Len(L) : adv[<<L[k][1], r>>] # Unassigned}

\* The verifier accepts iff, for every lookup and every witnessed row, the
\* input tuple is a row of the lookup's table.
verify(c, fx, adv) ==
    \A n \in 1..Len(c.lookups) :
        LET L == c.lookups[n]
        IN  \A r \in WitnessRows(L, adv) : InputTuple(L, adv, r) \in TableTuples(L, fx)

(* ------------------------------ actions ------------------------------- *)

\* TableChip::configure on two advice column handles of the caller; nothing
\* in configure compares them, the same column may be passed twice.
Configure(input_x, input_y) ==
    /\ status = "new"
    /\ \E r \in {configure(cs, input_x, input_y)} :
           /\ cs' = r.cs
           /\ config' = r.config
    /\ status' = "configured"
    /\ last' = [NoCall EXCEPT !.op = "configure", !.input_x = input_x, !.input_y = input_y]
    /\ UNCHANGED <<mode, fixed, table_log, advice, witness, loaded, verdict>>

\* TableChip::load(config, layouter, xs, ys), at most once per synthesis.  An
\* error ends synthesis (the caller's `?`).
Load(xs, ys) ==
    /\ status = "configured"
    /\ ~loaded.done
    /\ \E r \in {load(config, [cells |-> fixed, log |-> table_log], xs, ys)} :
           /\ fixed' = r.t.cells
           /\ table_log' = r.t.log
           /\ loaded' = [done |-> TRUE, xs |-> xs, ys |-> ys, ret |-> r.ret,
                         after_rows |-> (advice # EmptyAdvice)]
           /\ last' = [NoCall EXCEPT !.op = "load", !.ret = r.ret]
           /\ status' = IF r.ret.ok THEN "configured" ELSE "failed"
    /\ UNCHANGED <<mode, cs, config, advice, witness, verdict>>

\* table_chip.add_row(region, row, x, y).  An error ends synthesis.
AddRow(row, x, y) ==
    /\ status = "configured"
    /\ \E r \in {add_row(config, mode, [cells |-> advice, log |-> <<>>], row, x, y)} :
           /\ advice' = r.reg.cells
           /\ witness' = IF r.ret.ok /\ row \in Rows
                         THEN [witness EXCEPT ![row] = [set |-> TRUE, x |-> x, y |-> y]]
                         ELSE witness
           /\ last' = [NoCall EXCEPT !.op = "add_row", !.row = row, !.x = x, !.y = y,
                                     !.ret = r.ret, !.calls = r.reg.log]
           /\ status' = IF r.ret.ok THEN "configured" ELSE "failed"
    /\ UNCHANGED <<mode, cs, config, fixed, table_log, loaded, verdict>>

\* The framework's verifier run on the synthesized circuit (section 6).
Verify ==
    /\ status = "configured"
    /\ mode = "prove"
    /\ verdict' = verify(cs, fixed, advice)
    /\ status' = "verified"
    /\ last' = [NoCall EXCEPT !.op = "verify"]
    /\ UNCHANGED <<mode, cs, config, fixed, table_log, advice, witness, loaded>>

(* --------------------------- specifications --------------------------- *)

InitWith(modes, pres) ==
    /\ mode \in modes
    /\ \E p \in pres : cs = PreCs(p)
    /\ config = NoConfig
    /\ fixed = EmptyFixed
    /\ table_log = <<>>
    /\ advice = EmptyAdvice
    /\ witness = EmptyWitness
    /\ loaded = NotLoaded
    /\ last = NoCall
    /\ status = "new"
    /\ verdict = FALSE

Modes == {"keygen", "prove"}

\* Arguments for configure: two different advice columns, and one column
\* passed as both input_x and input_y.
SampleInputs == {<<0, 1>>, <<0, 0>>}

\* A table of n rows for load: row i is (i, i + 1), over the bytes tried.
SampleTable(n) == [xs |-> [i \in 1..n |-> (i - 1) % 2],
                   ys |-> [i \in 1..n |-> i % 2]]

\* Any caller's synthesis with every kind of add_row call, in both modes, around the load
\* of a table that fills the circuit's rows or is one row too long.
Init == InitWith(Modes, {0})

Next ==
    \/ \E p \in SampleInputs : Configure(p[1], p[2])
    \/ \E n \in {NumRows, MaxLen} : Load(SampleTable(n).xs, SampleTable(n).ys)
    \/ \E row \in RowArgs, x \in OptByte, y \in OptByte : AddRow(row, x, y)

Spec == Init /\ [][Next]_vars

\* load on every pair of byte vectors, equal in length or not.
InitLoad == InitWith(Modes, 0..MaxPre)

NextLoad ==
    \/ \E p \in SampleInputs : Configure(p[1], p[2])
    \/ \E xs \in SeqsUpTo(Byte, MaxLen), ys \in SeqsUpTo(Byte, MaxLen) : Load(xs, ys)

SpecLoad == InitLoad /\ [][NextLoad]_vars

\* A proving run of a circuit made of this chip alone: any table that fits, one
\* concrete pair per witnessed row, load and add_row in any order, then
\* verification.
InitVerify == InitWith({"prove"}, {0})

NextVerify ==
    \/ \E p \in SampleInputs : Configure(p[1], p[2])
    \/ \E n \in 0..NumRows : \E xs \in [1..n -> Byte], ys \in [1..n -> Byte] : Load(xs, ys)
    \/ \E row \in Rows, x \in Byte, y \in Byte :
          ~witness[row].set /\ AddRow(row, Some(x), Some(y))
    \/ Verify

SpecVerify == InitVerify /\ [][NextVerify]_vars

\* The chip configured on any two advice columns of a constraint system other
\* chips already use, then loaded and witnessed.
InitWire == InitWith({"prove"}, 0..MaxPre)

NextWire ==
    \/ \E input_x \in AdviceCols, input_y \in AdviceCols : Configure(input_x, input_y)
    \/ \E n \in 0..NumRows : Load(SampleTable(n).xs, SampleTable(n).ys)
    \/ \E row \in Rows, x \in Byte, y \in Byte : AddRow(row, Some(x), Some(y))

SpecWire == InitWire /\ [][NextWire]_vars

(* ------------------------------- claims ------------------------------ *)

\* The loaded table T as byte pairs, and membership of a pair in it.
InTable(x, y) ==
    \E i \in 1..Min(Len(loaded.xs), Len(loaded.ys)) : loaded.xs[i] = x /\ loaded.ys[i] = y

WitnessedRows == {r \in Rows : witness[r].set}

\* C1 -- soundness of membership: once configure, a successful load of T and
\* one add_row per pair of W (each at a row of its own) are done, the verifier
\* accepts iff every pair of W equals, as a tuple, some row of T.
C1_SoundMembership ==
    (status = "verified" /\ loaded.done /\ loaded.ret.ok
        /\ Len(loaded.xs) = Len(loaded.ys))
    => (verdict <=> \A r \in WitnessedRows : InTable(witness[r].x.v, witness[r].y.v))

\* C2 -- shape-mismatch rejection: a load whose xs and ys differ in length
\* returns an error.
C2_MismatchRejected ==
    (loaded.done /\ Len(loaded.xs) # Len(loaded.ys)) => ~loaded.ret.ok

CallsAt(log, col, row) == {k \in 1..Len(log) : log[k][1] = col /\ log[k][2] = row}

\* C3 -- load result: after a successful load of n = |xs| = |ys| pairs, row i of
\* table_x holds the embedding of xs[i] and row i of table_y that of ys[i], no
\* other fixed cell is assigned, each of the 2n cells was assigned exactly once,
\* and a load of two empty vectors succeeds and assigns nothing.
C3_LoadResult ==
    /\ (loaded.done /\ loaded.ret.ok /\ Len(loaded.xs) = Len(loaded.ys)) =>
          LET n == Len(loaded.xs)
          IN  /\ \A i \in 1..n :
                    /\ fixed[<<config.table.x, i - 1>>] = FromU64(as_u64(loaded.xs[i]))
                    /\ fixed[<<config.table.y, i - 1>>] = FromU64(as_u64(loaded.ys[i]))
              /\ \A c \in TableCols \X Rows :
                    fixed[c] # Unassigned
                        => c[1] \in {config.table.x, config.table.y} /\ c[2] < n
              /\ Len(table_log) = 2 * n
              /\ \A k \in 1..Len(table_log) : table_log[k][4].ok
              /\ \A col \in {config.table.x, config.table.y}, row \in 0..(n - 1) :
                    Cardinality(CallsAt(table_log, col, row)) = 1
    /\ (loaded.done /\ Len(loaded.xs) = 0 /\ Len(loaded.ys) = 0) =>
          loaded.ret.ok /\ table_log = <<>> /\ fixed = EmptyFixed

\* C3 witness: a successful load that fills every row, with xs different from ys.
C3_FullTableLoaded ==
    /\ loaded.done /\ loaded.ret.ok
    /\ Len(loaded.xs) = NumRows /\ Len(loaded.ys) = NumRows
    /\ loaded.xs # loaded.ys
    /\ loaded.xs[1] # loaded.xs[2]

\* C4 -- key-generation tolerance: in key generation every add_row call with x
\* and/or y unknown returns Ok, synthesis goes on, and each cell given an
\* unknown value is recorded as assigned with the unknown value.
C4_KeygenTolerance ==
    (mode = "keygen" /\ last.op = "add_row" /\ (~last.x.some \/ ~last.y.some)) =>
        /\ last.ret = Ok
        /\ status = "configured"
        /\ Len(last.calls) = 2
        /\ ~last.x.some =>
              /\ last.calls[1] = <<config.input.x, last.row, Unknown, Ok>>
              /\ advice[<<config.input.x, last.row>>] = Unknown
        /\ ~last.y.some =>
              /\ last.calls[2] = <<config.input.y, last.row, Unknown, Ok>>
              /\ advice[<<config.input.y, last.row>>] = Unknown

\* C5 as stated -- in proving mode add_row with x or y unknown returns
\* Error::Synthesis; with both concrete it returns Ok unless the region itself
\* reports an error.
C5_UnknownIsSynthesis ==
    (mode = "prove" /\ last.op = "add_row") =>
        /\ (~last.x.some \/ ~last.y.some) => last.ret = ErrSynthesis
        /\ (last.x.some /\ last.y.some) => (last.ret = Ok \/ last.ret = ErrBounds)

\* C5 amended -- in proving mode add_row with x or y unknown never returns Ok:
\* it returns Error::Synthesis unless the region itself reports an error (a row
\* outside the circuit), and then the region's error may be returned instead;
\* with both concrete it returns Ok unless the region reports an error.
C5_UnknownNeverSucceeds ==
    (mode = "prove" /\ last.op = "add_row") =>
        /\ (~last.x.some \/ ~last.y.some) =>
              /\ ~last.ret.ok
              /\ last.row \in Rows => last.ret = ErrSynthesis
              /\ last.row \notin Rows => last.ret \in {ErrSynthesis, ErrBounds}
        /\ (last.x.some /\ last.y.some) =>
              /\ last.row \in Rows => last.ret = Ok
              /\ last.row \notin Rows => last.ret = ErrBounds

\* C5 witness: proving, x concrete and y unknown at a usable row: Error::Synthesis.
C5_MissingWitness ==
    /\ mode = "prove" /\ last.op = "add_row"
    /\ last.x.some /\ ~last.y.some /\ last.row \in Rows
    /\ last.ret = ErrSynthesis /\ status = "failed"

\* The outcome on the current witnesses had the table been loaded from xs, ys.
OutcomeWith(xs, ys) ==
    LET r == load(config, [cells |-> EmptyFixed, log |-> <<>>], xs, ys)
    IN  [ok |-> r.ret.ok, accept |-> verify(cs, r.t.cells, advice)]

RowOrders(n) ==
    {p \in [1..n -> 1..n] : \A i \in 1..n, j \in 1..n : i # j => p[i] # p[j]}

Permuted(s, p) == [i \in 1..Len(s) |-> s[p[i]]]

\* s with its i-th entry repeated.
Duplicated(s, i) == SubSeq(s, 1, i) \o SubSeq(s, i, Len(s))

\* C6 -- the accept/reject outcome depends only on the set of loaded rows:
\* loading any permutation of the rows of T, or T with a row duplicated (when
\* it still fits), decides the witnesses as loading T does.
C6_TableAsSet ==
    (loaded.done /\ loaded.ret.ok /\ Len(loaded.xs) = Len(loaded.ys)) =>
        LET n == Len(loaded.xs)
            outcome == verify(cs, fixed, advice)
        IN  /\ status = "verified" => verdict = outcome
            /\ \A p \in RowOrders(n) :
                  LET o == OutcomeWith(Permuted(loaded.xs, p), Permuted(loaded.ys, p))
                  IN  o.ok /\ o.accept = outcome
            /\ \A i \in 1..n :
                  LET o == OutcomeWith(Duplicated(loaded.xs, i), Duplicated(loaded.ys, i))
                  IN  o.ok => o.accept = outcome

\* C6 witness: a verified run on a table of two different rows whose second row
\* is witnessed; accepted.
C6_SecondRowWitnessed ==
    /\ status = "verified" /\ verdict
    /\ loaded.done /\ Len(loaded.xs) = 2 /\ Len(loaded.ys) = 2
    /\ <<loaded.xs[1], loaded.ys[1]>> # <<loaded.xs[2], loaded.ys[2]>>
    /\ \E r \in WitnessedRows :
          witness[r].x.v = loaded.xs[2] /\ witness[r].y.v = loaded.ys[2]

\* C7 -- effect and frame of add_row: a successful call with concrete bytes
\* assigns exactly two cells, (input_x, row) := embedding of x and
\* (input_y, row) := embedding of y; every other advice cell, every fixed cell
\* and the configuration are unchanged.
C7_TwoCellsAssigned ==
    [][(last'.op = "add_row" /\ last'.ret.ok /\ last'.x.some /\ last'.y.some) =>
          LET row == last'.row
              cx == <<config.input.x, row>>
              cy == <<config.input.y, row>>
              fx == FromU64(as_u64(last'.x.v))
              fy == FromU64(as_u64(last'.y.v))
          IN  /\ last'.calls = << <<config.input.x, row, fx, Ok>>,
                                  <<config.input.y, row, fy, Ok>> >>
              /\ cx # cy
              /\ advice'[cx] = fx
              /\ advice'[cy] = fy
              /\ \A c \in AdviceCols \X Rows : c \notin {cx, cy} => advice'[c] = advice[c]
              /\ fixed' = fixed /\ table_log' = table_log
              /\ config' = config /\ cs' = cs /\ loaded' = loaded
      ]_vars

\* C8 -- configure wiring: configure allocates two new, distinct table columns,
\* adds exactly one lookup, <<(input_x, table_x), (input_y, table_y)>>, and
\* returns the config of exactly those four handles; load then writes only
\* table_x and table_y and add_row only input_x and input_y, the columns the
\* lookup pairs.
C8_ConfigureWiring ==
    [][LET L == cs'.lookups[Len(cs'.lookups)]
       IN  /\ last'.op = "configure" =>
                 LET table_x == cs.tableCols
                     table_y == cs.tableCols + 1
                 IN  /\ table_x # table_y
                     /\ \A n \in 1..Len(cs.lookups) : \A k \in 1..Len(cs.lookups[n]) :
                           cs.lookups[n][k][2] \notin {table_x, table_y}
                     /\ cs'.tableCols = cs.tableCols + 2
                     /\ cs'.lookups = Append(cs.lookups,
                                             << <<last'.input_x, table_x>>,
                                                <<last'.input_y, table_y>> >>)
                     /\ config' = [input |-> [x |-> last'.input_x, y |-> last'.input_y],
                                   table |-> [x |-> table_x, y |-> table_y]]
           /\ last'.op \in {"load", "add_row"} =>
                 /\ cs' = cs /\ config' = config
                 /\ L = << <<config.input.x, config.table.x>>,
                           <<config.input.y, config.table.y>> >>
           /\ last'.op = "load" =>
                 \A k \in 1..Len(table_log') :
                    table_log'[k][1] = L[IF k % 2 = 1 THEN 1 ELSE 2][2]
           /\ last'.op = "add_row" =>
                 \A k \in 1..Len(last'.calls) : last'.calls[k][1] = L[k][1]
      ]_vars

\* C8 witness: configured on a constraint system that already had table columns
\* and lookups, with the advice column another chip also uses as input_x;
\* the table loaded and a row added.
C8_WiredAmongOthers ==
    /\ status = "configured" /\ cs.tableCols = MaxPre + 2 /\ Len(cs.lookups) = MaxPre + 1
    /\ config.input.x = 2
    /\ loaded.done /\ Len(table_log) = 2 * NumRows
    /\ last.op = "add_row" /\ last.ret.ok

\* The advice cells the witnesses W determine, whatever the order of the calls
\* (add_row assigns x, then y: a shared cell keeps y).
ExpectedAdvice ==
    [c \in AdviceCols \X Rows |->
        IF witness[c[2]].set /\ c[1] = config.input.y
        THEN FromU64(as_u64(witness[c[2]].y.v))
        ELSE IF witness[c[2]].set /\ c[1] = config.input.x
        THEN FromU64(as_u64(witness[c[2]].x.v))
        ELSE Unassigned]

\* What load leaves when it is the first call of synthesis.
LoadFirst == load(config, [cells |-> EmptyFixed, log |-> <<>>], loaded.xs, loaded.ys)

\* C9 -- order tolerance: with load and the add_row calls interleaved in any
\* order every call succeeds, the assigned cells are those of the load-first
\* order, and so is the verifier's decision; a run whose add_row calls were made
\* but whose table was never loaded is not accepted.
C9_OrderTolerance ==
    /\ status # "failed" /\ last.ret.ok /\ loaded.ret.ok
    /\ status # "new" => advice = ExpectedAdvice
    /\ loaded.done => fixed = LoadFirst.t.cells /\ table_log = LoadFirst.t.log
    /\ ~loaded.done => fixed = EmptyFixed /\ table_log = <<>>
    /\ status = "verified" =>
          verdict = verify(cs, IF loaded.done THEN LoadFirst.t.cells ELSE EmptyFixed,
                           ExpectedAdvice)
    /\ (status = "verified" /\ ~loaded.done /\ WitnessedRows # {}) => ~verdict

\* C9 witness: load made between two add_row calls.
C9_LoadBetweenRows ==
    /\ status = "configured" /\ loaded.done /\ loaded.after_rows
    /\ Len(loaded.xs) = NumRows
    /\ last.op = "add_row" /\ last.ret.ok
    /\ Cardinality(WitnessedRows) >= 2

\* A failing call is the last one made and its error is the operation's result.
NoRecovery(log, ret) ==
    /\ \A k \in 1..Len(log) : ~log[k][4].ok => (k = Len(log) /\ ret = log[k][4])
    /\ ret.ok <=> \A k \in 1..Len(log) : log[k][4].ok

\* C10 -- error propagation without recovery: when a table assign_cell (in load)
\* or a region assign_advice (in add_row) returns an error, the chip operation
\* returns that error and makes no further assignment; in add_row a failure on x
\* leaves the y assignment unmade, a failure on y leaves x assigned.
C10_ErrorsPropagate ==
    /\ loaded.done => NoRecovery(table_log, loaded.ret)
    /\ last.op = "add_row" =>
          /\ NoRecovery(last.calls, last.ret)
          /\ Len(last.calls) \in {1, 2}
          /\ last.calls[1][1] = config.input.x
          /\ Len(last.calls) = 2 =>
                /\ last.calls[1][4].ok
                /\ last.calls[2][1] = config.input.y
          /\ (~last.ret.ok /\ Len(last.calls) = 2) =>
                advice[<<config.input.x, last.row>>] = FromU64(as_u64(last.x.v))

\* C10 witness: after a load, add_row fails on y (unknown while proving) with x
\* already assigned, and returns the region's error.
C10_FailureOnY ==
    /\ loaded.done /\ loaded.ret.ok
    /\ last.op = "add_row" /\ last.ret = ErrSynthesis
    /\ Len(last.calls) = 2 /\ last.calls[2][4] = ErrSynthesis
    /\ advice[<<config.input.x, last.row>>] = FromU64(as_u64(last.x.v))
    /\ advice[<<config.input.y, last.row>>] = Unassigned

====
